---- MODULE Spec2Model ----
(***************************************************************************)
(* A model of the frameworks package:                                      *)
(*   - MLRunInterface (frameworks/_common/mlrun_interface.py): the         *)
(*     injection of properties, methods and functions into a model object; *)
(*   - Callback (frameworks/pytorch/callbacks/callback.py): the hooks of   *)
(*     the base callback class and its objects dictionary;                 *)
(*   - train / evaluate (frameworks/pytorch/__init__.py): the calls made   *)
(*     on the trainer / evaluator and the value returned.                  *)
(* Each part has its own specification (SpecInterface, SpecCallback,       *)
(* SpecRun) over its own variables; the other parts' variables stay at     *)
(* their initial values.                                                   *)
(***************************************************************************)
EXTENDS Naturals, Sequences, FiniteSets

VARIABLES
    \* MLRunInterface.add_interface
    model,      \* the attributes of the model object: a function name -> value
    pre,        \* the attributes of the model object when add_interface was called
    interface,  \* the interface class add_interface was called on
    status,     \* "idle" | "returned" | "raised" (AttributeError out of getattr)
    \* Callback
    _objects,   \* the callback's objects dictionary: a function key -> value
    called,     \* the hook invoked last
    returned,   \* what that hook returned
    \* train / evaluate
    fn,         \* the function called last: "none" | "train" | "evaluate"
    args,       \* the arguments it was called with
    calls,      \* the calls it made on PyTorchMLRunInterface / trainer / evaluator, in order
    handle,     \* its local variable trainer / evaluator
    result      \* the value it returned

interfaceVars == <<model, pre, interface, status>>
callbackVars == <<_objects, called, returned>>
runVars == <<fn, args, calls, handle, result>>
vars == <<model, pre, interface, status, _objects, called, returned,
          fn, args, calls, handle, result>>

None == "None"

(***************************************************************************)
(* Bounds.                                                                 *)
(***************************************************************************)
MaxProperties == 2   \* entries of an interface's _PROPERTIES
MaxMethods == 1      \* entries of an interface's _METHODS
MaxFunctions == 1    \* entries of an interface's _FUNCTIONS

(***************************************************************************)
(* Python's object model, as far as add_interface uses it.                 *)
(***************************************************************************)
Names == {"a", "b", "c"}
\* Attribute values are tuples: an attribute the object had from the start, a
\* default value of _PROPERTIES, a bound method, a function
Original == <<"original">>
Defaults == {<<"default", "d1">>, <<"default", "d2">>}

\* model.__dir__(): the names of the object's attributes
dir(obj) == DOMAIN obj

\* setattr(obj, name, value)
setattr(obj, name, value) ==
    [n \in DOMAIN obj \cup {name} |-> IF n = name THEN value ELSE obj[n]]

\* getattr(interface, name) succeeds iff the interface class defines name
hasattr(cls, name) == name \in cls.defined

\* MethodType(function, obj): the function bound to obj (the object is the one
\* model object of the state)
MethodType(function, obj) == <<"bound method", function[2]>>

\* getattr(interface, name) where defined: the class's function of that name
getattr(cls, name) == <<"function", name>>

\* Sequences over S of length at most n
SeqUpTo(S, n) == UNION {[1..k -> S] : k \in 0..n}

\* A dict's items(): keys are unique
IsItems(items) == \A i, j \in 1..Len(items) : items[i][1] = items[j][1] => i = j

\* A subclass of MLRunInterface: its three class attributes and the names of
\* the methods / functions it defines.
Interfaces ==
    [_PROPERTIES : {p \in SeqUpTo(Names \X Defaults, MaxProperties) : IsItems(p)},
     _METHODS    : SeqUpTo(Names, MaxMethods),
     _FUNCTIONS  : SeqUpTo(Names, MaxFunctions),
     defined     : SUBSET Names]

\* Model objects before any injection
Models == UNION {[S -> {Original}] : S \in SUBSET Names}

\* The result of a (possibly interrupted) sequence of insertions
Outcome(obj, raised) == [obj |-> obj, raised |-> raised]

RECURSIVE properties_loop(_, _, _)
properties_loop(obj, items, i) ==
    IF i > Len(items) THEN obj
    ELSE LET property_name == items[i][1]
             default_value == items[i][2]
         IN  properties_loop(
                 IF property_name \notin dir(obj)
                 THEN setattr(obj, property_name, default_value)
                 ELSE obj,
                 items, i + 1)

\* _insert_properties without the `not in model.__dir__()` test
RECURSIVE overwriting_loop(_, _, _)
overwriting_loop(obj, items, i) ==
    IF i > Len(items) THEN obj
    ELSE overwriting_loop(setattr(obj, items[i][1], items[i][2]), items, i + 1)

_insert_properties_overwriting(obj, cls) == overwriting_loop(obj, cls._PROPERTIES, 1)

_insert_properties(obj, cls) == properties_loop(obj, cls._PROPERTIES, 1)

RECURSIVE methods_loop(_, _, _)
methods_loop(obj, cls, i) ==
    IF i > Len(cls._METHODS) THEN Outcome(obj, FALSE)
    ELSE LET method_name == cls._METHODS[i]
         IN  IF method_name \notin dir(obj)
             THEN IF hasattr(cls, method_name)
                  THEN methods_loop(
                           setattr(obj, method_name,
                                   MethodType(getattr(cls, method_name), obj)),
                           cls, i + 1)
                  ELSE Outcome(obj, TRUE)
             ELSE methods_loop(obj, cls, i + 1)

_insert_methods(obj, cls) == methods_loop(obj, cls, 1)

RECURSIVE functions_loop(_, _, _)
functions_loop(obj, cls, i) ==
    IF i > Len(cls._FUNCTIONS) THEN Outcome(obj, FALSE)
    ELSE LET function_name == cls._FUNCTIONS[i]
         IN  IF function_name \notin dir(obj)
             THEN IF hasattr(cls, function_name)
                  THEN functions_loop(
                           setattr(obj, function_name, getattr(cls, function_name)),
                           cls, i + 1)
                  ELSE Outcome(obj, TRUE)
             ELSE functions_loop(obj, cls, i + 1)

_insert_functions(obj, cls) == functions_loop(obj, cls, 1)

\* add_interface inserting the methods and functions before the properties
add_interface_properties_last(obj, cls) ==
    LET withMethods == _insert_methods(obj, cls)
        withFunctions == _insert_functions(withMethods.obj, cls)
    IN  IF withMethods.raised THEN withMethods
        ELSE IF withFunctions.raised THEN withFunctions
        ELSE Outcome(_insert_properties(withFunctions.obj, cls), FALSE)

\* cls.add_interface(model): properties, then methods, then functions; an
\* AttributeError leaves the model as it was when it was raised.
add_interface(obj, cls) ==
    LET withProperties == _insert_properties(obj, cls)
        withMethods == _insert_methods(withProperties, cls)
    IN  IF withMethods.raised THEN withMethods
        ELSE _insert_functions(withMethods.obj, cls)

\* Any model object, add_interface not called yet (no callback hook invoked,
\* neither train nor evaluate called)
InitInterface ==
    /\ model \in Models
    /\ pre = model
    /\ interface = None
    /\ status = "idle"
    /\ _objects = <<>> /\ called = None /\ returned = None
    /\ fn = "none" /\ args = <<>> /\ calls = <<>> /\ handle = None /\ result = None

\* A behaviour is one call of add_interface on a model object.
AddInterface ==
    /\ status = "idle"
    /\ \E cls \in Interfaces :
         LET out == add_interface(model, cls)
         IN  /\ model' = out.obj
             /\ pre' = model
             /\ interface' = cls
             /\ status' = IF out.raised THEN "raised" ELSE "returned"
    /\ UNCHANGED <<callbackVars, runVars>>

\* The names an interface lists
PropertyNames(cls) == {cls._PROPERTIES[i][1] : i \in 1..Len(cls._PROPERTIES)}
MethodNames(cls) == {cls._METHODS[i] : i \in 1..Len(cls._METHODS)}
FunctionNames(cls) == {cls._FUNCTIONS[i] : i \in 1..Len(cls._FUNCTIONS)}
ListedNames(cls) == PropertyNames(cls) \cup MethodNames(cls) \cup FunctionNames(cls)

\* C1: add_interface only adds. Every attribute the model had when
\* add_interface was called, listed by the interface or not, is still an
\* attribute with the same value once the call has ended (by returning or by
\* raising): nothing is overwritten or removed.
C1_OnlyAdds ==
    \A n \in dir(pre) : n \in dir(model) /\ model[n] = pre[n]

\* C1's case: the call returned, an attribute the model already had is listed
\* in _PROPERTIES, and another listed name was added.
C1_Witness ==
    /\ status = "returned"
    /\ \E n \in dir(pre) : n \in PropertyNames(interface)
    /\ \E n \in dir(pre) : n \in MethodNames(interface) \cup FunctionNames(interface)
    /\ dir(model) # dir(pre)

\* C2: after add_interface has returned, every name listed in _PROPERTIES,
\* _METHODS and _FUNCTIONS is an attribute of the model, and every property
\* name that was absent before the call holds its default value of _PROPERTIES.
C2_AllListedPresent ==
    status = "returned" =>
        /\ \A n \in ListedNames(interface) : n \in dir(model)
        /\ \A i \in 1..Len(interface._PROPERTIES) :
              LET property_name == interface._PROPERTIES[i][1]
                  default_value == interface._PROPERTIES[i][2]
              IN  property_name \notin dir(pre) => model[property_name] = default_value

\* C2's case: the call returned after adding a property, a method and a
\* function, and one absent name was listed both as a property and as a method.
C2_Witness ==
    /\ status = "returned"
    /\ \E n \in PropertyNames(interface) : n \notin dir(pre) /\ n \in MethodNames(interface)
    /\ \E n \in MethodNames(interface) : n \notin dir(pre)
    /\ \E n \in FunctionNames(interface) : n \notin dir(pre)

(***************************************************************************)
(* Callback: the base class of the callbacks of the trainer and evaluator. *)
(***************************************************************************)
MaxRank == 1      \* horovod ranks are 0..MaxRank
MaxEpoch == 1     \* epochs are 0..MaxEpoch
MaxBatch == 1     \* batches are 0..MaxBatch
MaxMetrics == 2   \* length of a list of metric values

Ranks == 0..MaxRank
Epochs == 0..MaxEpoch
Batches == 0..MaxBatch
Tensors == {"tensor1", "tensor2"}
MetricValues == {"value1", "value2"}
MetricLists == SeqUpTo(MetricValues, MaxMetrics)

\* Callback._ObjectKeys
MODEL == "model"
TRAINING_SET == "training_set"
VALIDATION_SET == "validation_set"
LOSS_FUNCTION == "loss_function"
OPTIMIZER == "optimizer"
METRIC_FUNCTIONS == "metric_functions"
SCHEDULER == "scheduler"
_ObjectKeys ==
    {MODEL, TRAINING_SET, VALIDATION_SET, LOSS_FUNCTION, OPTIMIZER,
     METRIC_FUNCTIONS, SCHEDULER}

\* The keyword arguments of on_setup: each is None (the default) or an object
SetupArguments == [_ObjectKeys -> {None, "given"}]

\* d[key] = value on a dict
setitem(d, key, value) ==
    [k \in DOMAIN d \cup {key} |-> IF k = key THEN value ELSE d[k]]

\* Callback.__init__: an empty objects dictionary (a model object without
\* attributes; neither train nor evaluate called)
InitCallback ==
    /\ _objects = <<>>
    /\ called = None
    /\ returned = None
    /\ model = <<>> /\ pre = <<>> /\ interface = None /\ status = "idle"
    /\ fn = "none" /\ args = <<>> /\ calls = <<>> /\ handle = None /\ result = None

\* The hooks. A hook whose body is `pass` stores nothing and returns None.
on_horovod_check(rank) ==
    /\ called' = "on_horovod_check"
    /\ returned' = None
    /\ UNCHANGED _objects
    /\ UNCHANGED <<interfaceVars, runVars>>

on_setup(kwargs) ==
    /\ _objects' =
         setitem(setitem(setitem(setitem(setitem(setitem(setitem(_objects,
             MODEL, kwargs.model),
             TRAINING_SET, kwargs.training_set),
             VALIDATION_SET, kwargs.validation_set),
             LOSS_FUNCTION, kwargs.loss_function),
             OPTIMIZER, kwargs.optimizer),
             METRIC_FUNCTIONS, kwargs.metric_functions),
             SCHEDULER, kwargs.scheduler)
    /\ called' = "on_setup"
    /\ returned' = None
    /\ UNCHANGED <<interfaceVars, runVars>>

on_run_begin ==
    /\ called' = "on_run_begin"
    /\ returned' = None
    /\ UNCHANGED _objects
    /\ UNCHANGED <<interfaceVars, runVars>>

\* on_run_end dropping the objects registered on setup
on_run_end_clearing ==
    /\ _objects' = <<>>
    /\ called' = "on_run_end"
    /\ returned' = None
    /\ UNCHANGED <<interfaceVars, runVars>>

on_run_end ==
    /\ called' = "on_run_end"
    /\ returned' = None
    /\ UNCHANGED _objects
    /\ UNCHANGED <<interfaceVars, runVars>>

on_epoch_begin(epoch) ==
    /\ called' = "on_epoch_begin"
    /\ returned' = None
    /\ UNCHANGED _objects
    /\ UNCHANGED <<interfaceVars, runVars>>

on_epoch_end(epoch) ==
    /\ called' = "on_epoch_end"
    /\ returned' = None
    /\ UNCHANGED _objects
    /\ UNCHANGED <<interfaceVars, runVars>>

on_train_begin ==
    /\ called' = "on_train_begin"
    /\ returned' = None
    /\ UNCHANGED _objects
    /\ UNCHANGED <<interfaceVars, runVars>>

on_train_end ==
    /\ called' = "on_train_end"
    /\ returned' = None
    /\ UNCHANGED _objects
    /\ UNCHANGED <<interfaceVars, runVars>>

on_validation_begin ==
    /\ called' = "on_validation_begin"
    /\ returned' = None
    /\ UNCHANGED _objects
    /\ UNCHANGED <<interfaceVars, runVars>>

on_validation_end(loss_value, metric_values) ==
    /\ called' = "on_validation_end"
    /\ returned' = None
    /\ UNCHANGED _objects
    /\ UNCHANGED <<interfaceVars, runVars>>

on_train_batch_begin(batch, x, y_true) ==
    /\ called' = "on_train_batch_begin"
    /\ returned' = None
    /\ UNCHANGED _objects
    /\ UNCHANGED <<interfaceVars, runVars>>

on_train_batch_end(batch, x, y_true, y_pred) ==
    /\ called' = "on_train_batch_end"
    /\ returned' = None
    /\ UNCHANGED _objects
    /\ UNCHANGED <<interfaceVars, runVars>>

on_validation_batch_begin(batch, x, y_true) ==
    /\ called' = "on_validation_batch_begin"
    /\ returned' = None
    /\ UNCHANGED _objects
    /\ UNCHANGED <<interfaceVars, runVars>>

on_validation_batch_end(batch, x, y_true, y_pred) ==
    /\ called' = "on_validation_batch_end"
    /\ returned' = None
    /\ UNCHANGED _objects
    /\ UNCHANGED <<interfaceVars, runVars>>

on_train_loss_begin ==
    /\ called' = "on_train_loss_begin"
    /\ returned' = None
    /\ UNCHANGED _objects
    /\ UNCHANGED <<interfaceVars, runVars>>

on_train_loss_end(loss_value) ==
    /\ called' = "on_train_loss_end"
    /\ returned' = None
    /\ UNCHANGED _objects
    /\ UNCHANGED <<interfaceVars, runVars>>

on_validation_loss_begin ==
    /\ called' = "on_validation_loss_begin"
    /\ returned' = None
    /\ UNCHANGED _objects
    /\ UNCHANGED <<interfaceVars, runVars>>

on_validation_loss_end(loss_value) ==
    /\ called' = "on_validation_loss_end"
    /\ returned' = None
    /\ UNCHANGED _objects
    /\ UNCHANGED <<interfaceVars, runVars>>

on_train_metrics_begin ==
    /\ called' = "on_train_metrics_begin"
    /\ returned' = None
    /\ UNCHANGED _objects
    /\ UNCHANGED <<interfaceVars, runVars>>

on_train_metrics_end(metric_values) ==
    /\ called' = "on_train_metrics_end"
    /\ returned' = None
    /\ UNCHANGED _objects
    /\ UNCHANGED <<interfaceVars, runVars>>

on_validation_metrics_begin ==
    /\ called' = "on_validation_metrics_begin"
    /\ returned' = None
    /\ UNCHANGED _objects
    /\ UNCHANGED <<interfaceVars, runVars>>

on_validation_metrics_end(metric_values) ==
    /\ called' = "on_validation_metrics_end"
    /\ returned' = None
    /\ UNCHANGED _objects
    /\ UNCHANGED <<interfaceVars, runVars>>

on_backward_begin ==
    /\ called' = "on_backward_begin"
    /\ returned' = None
    /\ UNCHANGED _objects
    /\ UNCHANGED <<interfaceVars, runVars>>

on_backward_end ==
    /\ called' = "on_backward_end"
    /\ returned' = None
    /\ UNCHANGED _objects
    /\ UNCHANGED <<interfaceVars, runVars>>

on_optimizer_step_begin ==
    /\ called' = "on_optimizer_step_begin"
    /\ returned' = None
    /\ UNCHANGED _objects
    /\ UNCHANGED <<interfaceVars, runVars>>

on_optimizer_step_end ==
    /\ called' = "on_optimizer_step_end"
    /\ returned' = None
    /\ UNCHANGED _objects
    /\ UNCHANGED <<interfaceVars, runVars>>

on_scheduler_step_begin ==
    /\ called' = "on_scheduler_step_begin"
    /\ returned' = None
    /\ UNCHANGED _objects
    /\ UNCHANGED <<interfaceVars, runVars>>

on_scheduler_step_end ==
    /\ called' = "on_scheduler_step_end"
    /\ returned' = None
    /\ UNCHANGED _objects
    /\ UNCHANGED <<interfaceVars, runVars>>

on_call_check ==
    /\ called' = "on_call_check"
    /\ returned' = TRUE
    /\ UNCHANGED _objects
    /\ UNCHANGED <<interfaceVars, runVars>>

Hooks ==
    {"on_horovod_check",
     "on_setup",
     "on_run_begin",
     "on_run_end",
     "on_epoch_begin",
     "on_epoch_end",
     "on_train_begin",
     "on_train_end",
     "on_validation_begin",
     "on_validation_end",
     "on_train_batch_begin",
     "on_train_batch_end",
     "on_validation_batch_begin",
     "on_validation_batch_end",
     "on_train_loss_begin",
     "on_train_loss_end",
     "on_validation_loss_begin",
     "on_validation_loss_end",
     "on_train_metrics_begin",
     "on_train_metrics_end",
     "on_validation_metrics_begin",
     "on_validation_metrics_end",
     "on_backward_begin",
     "on_backward_end",
     "on_optimizer_step_begin",
     "on_optimizer_step_end",
     "on_scheduler_step_begin",
     "on_scheduler_step_end",
     "on_call_check"}

NextCallback ==
    \/ \E rank \in Ranks : on_horovod_check(rank)
    \/ \E kwargs \in SetupArguments : on_setup(kwargs)
    \/ on_run_begin
    \/ on_run_end
    \/ \E epoch \in Epochs : on_epoch_begin(epoch)
    \/ \E epoch \in Epochs : on_epoch_end(epoch)
    \/ on_train_begin
    \/ on_train_end
    \/ on_validation_begin
    \/ \E loss_value \in MetricValues, metric_values \in MetricLists : on_validation_end(loss_value, metric_values)
    \/ \E batch \in Batches, x \in Tensors, y_true \in Tensors : on_train_batch_begin(batch, x, y_true)
    \/ \E batch \in Batches, x \in Tensors, y_true \in Tensors, y_pred \in Tensors : on_train_batch_end(batch, x, y_true, y_pred)
    \/ \E batch \in Batches, x \in Tensors, y_true \in Tensors : on_validation_batch_begin(batch, x, y_true)
    \/ \E batch \in Batches, x \in Tensors, y_true \in Tensors, y_pred \in Tensors : on_validation_batch_end(batch, x, y_true, y_pred)
    \/ on_train_loss_begin
    \/ \E loss_value \in MetricValues : on_train_loss_end(loss_value)
    \/ on_validation_loss_begin
    \/ \E loss_value \in MetricValues : on_validation_loss_end(loss_value)
    \/ on_train_metrics_begin
    \/ \E metric_values \in MetricLists : on_train_metrics_end(metric_values)
    \/ on_validation_metrics_begin
    \/ \E metric_values \in MetricLists : on_validation_metrics_end(metric_values)
    \/ on_backward_begin
    \/ on_backward_end
    \/ on_optimizer_step_begin
    \/ on_optimizer_step_end
    \/ on_scheduler_step_begin
    \/ on_scheduler_step_end
    \/ on_call_check

\* C3 as stated: every hook (every on_* method), with every argument, leaves
\* the callback's objects dictionary unchanged.
C3_EveryHookNoOp ==
    [][called' \in Hooks => _objects' = _objects]_vars

\* C3 as amended: every hook other than on_setup, with every argument, leaves
\* the callback's objects dictionary unchanged.
C3_EveryHookButSetupNoOp ==
    [][(called' \in Hooks /\ called' # "on_setup") => _objects' = _objects]_vars

\* C3's case: a hook other than on_setup has been invoked on a callback whose
\* objects dictionary holds the objects registered on setup.
C3_Witness ==
    /\ called = "on_run_end"
    /\ DOMAIN _objects = _ObjectKeys
    /\ \A key \in _ObjectKeys : _objects[key] = "given"

(***************************************************************************)
(* train / evaluate: the two functions of frameworks.pytorch.              *)
(***************************************************************************)
MaxEpochs == 2       \* epochs is 1..MaxEpochs
MaxIterations == 1   \* an iterations argument is None or 1..MaxIterations

Optional(object) == {None, object}

\* An iterations argument: None is the empty tuple, the integer n the tuple <<n>>
Iterations == {<<>>} \cup {<<n>> : n \in 1..MaxIterations}

\* The arguments of train
TrainArguments ==
    [model                 : {"model1", "model2"},
     training_set          : {"training_set1", "training_set2"},
     loss_function         : {"loss_function1", "loss_function2"},
     optimizer             : {"optimizer1", "optimizer2"},
     validation_set        : Optional("validation_set"),
     metric_functions      : Optional("metric_functions"),
     scheduler             : Optional("scheduler"),
     epochs                : 1..MaxEpochs,
     training_iterations   : Iterations,
     validation_iterations : Iterations,
     callbacks_list        : Optional("callbacks_list"),
     use_cuda              : BOOLEAN,
     use_horovod           : BOOLEAN,
     auto_log              : BOOLEAN,
     context               : Optional("context"),
     custom_objects        : Optional("custom_objects")]

\* The arguments of evaluate
EvaluateArguments ==
    [model            : {"model1", "model2"},
     dataset          : {"dataset1", "dataset2"},
     loss_function    : Optional("loss_function"),
     metric_functions : Optional("metric_functions"),
     iterations       : Iterations,
     callbacks_list   : Optional("callbacks_list"),
     use_cuda         : BOOLEAN,
     use_horovod      : BOOLEAN,
     auto_log         : BOOLEAN,
     context          : Optional("context"),
     custom_objects   : Optional("custom_objects")]

\* A call target.method(**kwargs) that returned `returns`
Call(target, method, kwargs, returns) ==
    [target |-> target, method |-> method, kwargs |-> kwargs, returns |-> returns]

\* What a function did: the calls it made, its local trainer / evaluator, and
\* the value it returned
Execution(made, local, value) == [calls |-> made, handle |-> local, result |-> value]

\* The keyword arguments train gives to init_trainer, with use_horovod lost
init_trainer_arguments_without_horovod(a) ==
    [model                 |-> a.model,
     training_set          |-> a.training_set,
     loss_function         |-> a.loss_function,
     optimizer             |-> a.optimizer,
     validation_set        |-> a.validation_set,
     metric_functions      |-> a.metric_functions,
     scheduler             |-> a.scheduler,
     epochs                |-> a.epochs,
     training_iterations   |-> a.training_iterations,
     validation_iterations |-> a.validation_iterations,
     callbacks             |-> a.callbacks_list,
     use_cuda              |-> a.use_cuda,
     use_horovod           |-> FALSE]

\* The keyword arguments train gives to PyTorchMLRunInterface.init_trainer
init_trainer_arguments(a) ==
    [model                 |-> a.model,
     training_set          |-> a.training_set,
     loss_function         |-> a.loss_function,
     optimizer             |-> a.optimizer,
     validation_set        |-> a.validation_set,
     metric_functions      |-> a.metric_functions,
     scheduler             |-> a.scheduler,
     epochs                |-> a.epochs,
     training_iterations   |-> a.training_iterations,
     validation_iterations |-> a.validation_iterations,
     callbacks             |-> a.callbacks_list,
     use_cuda              |-> a.use_cuda,
     use_horovod           |-> a.use_horovod]

\* The keyword arguments evaluate gives to PyTorchMLRunInterface.init_evaluator
init_evaluator_arguments(a) ==
    [model            |-> a.model,
     dataset          |-> a.dataset,
     loss_function    |-> a.loss_function,
     metric_functions |-> a.metric_functions,
     iterations       |-> a.iterations,
     callbacks        |-> a.callbacks_list,
     use_cuda         |-> a.use_cuda,
     use_horovod      |-> a.use_horovod]

\* The keyword arguments train and evaluate give to add_auto_logging_callbacks
add_auto_logging_callbacks_arguments(a) ==
    [context |-> a.context, custom_objects |-> a.custom_objects]

\* train registering the auto-logging callbacks once the run has ended
train_logging_after_run(a, trainer) ==
    LET init == Call("PyTorchMLRunInterface", "init_trainer",
                     init_trainer_arguments(a), trainer)
        auto ==
            IF a.auto_log
            THEN <<Call(trainer, "add_auto_logging_callbacks",
                        add_auto_logging_callbacks_arguments(a), None)>>
            ELSE <<>>
        run == Call(trainer, "train", <<>>, None)
    IN  Execution(<<init, run>> \o auto, trainer, None)

\* train(**a), where PyTorchMLRunInterface.init_trainer returns `trainer`: the
\* function ends without a return statement, so its value is None
train(a, trainer) ==
    LET init == Call("PyTorchMLRunInterface", "init_trainer",
                     init_trainer_arguments(a), trainer)
        auto ==
            IF a.auto_log
            THEN <<Call(trainer, "add_auto_logging_callbacks",
                        add_auto_logging_callbacks_arguments(a), None)>>
            ELSE <<>>
        run == Call(trainer, "train", <<>>, None)
    IN  Execution(<<init>> \o auto \o <<run>>, trainer, None)

\* evaluate returning only the first of the run's metric values
evaluate_returning_first_metric(a, evaluator, metrics) ==
    LET init == Call("PyTorchMLRunInterface", "init_evaluator",
                     init_evaluator_arguments(a), evaluator)
        auto ==
            IF a.auto_log
            THEN <<Call(evaluator, "add_auto_logging_callbacks",
                        add_auto_logging_callbacks_arguments(a), None)>>
            ELSE <<>>
        run == Call(evaluator, "evaluate", <<>>, metrics)
    IN  Execution(<<init>> \o auto \o <<run>>, evaluator,
                  IF run.returns = <<>> THEN <<>> ELSE <<run.returns[1]>>)

\* evaluate(**a), where PyTorchMLRunInterface.init_evaluator returns
\* `evaluator` and evaluator.evaluate() returns `metrics`
evaluate(a, evaluator, metrics) ==
    LET init == Call("PyTorchMLRunInterface", "init_evaluator",
                     init_evaluator_arguments(a), evaluator)
        auto ==
            IF a.auto_log
            THEN <<Call(evaluator, "add_auto_logging_callbacks",
                        add_auto_logging_callbacks_arguments(a), None)>>
            ELSE <<>>
        run == Call(evaluator, "evaluate", <<>>, metrics)
    IN  Execution(<<init>> \o auto \o <<run>>, evaluator, run.returns)

\* Neither train nor evaluate called yet (a model object without attributes;
\* no callback hook invoked)
InitRun ==
    /\ fn = "none"
    /\ args = <<>>
    /\ calls = <<>>
    /\ handle = None
    /\ result = None
    /\ model = <<>> /\ pre = <<>> /\ interface = None /\ status = "idle"
    /\ _objects = <<>> /\ called = None /\ returned = None

\* A behaviour is one call of train or of evaluate: the functions keep no state
\* between calls.
Train ==
    /\ fn = "none"
    /\ \E a \in TrainArguments :
         LET e == train(a, "trainer")
         IN  /\ fn' = "train"
             /\ args' = a
             /\ calls' = e.calls
             /\ handle' = e.handle
             /\ result' = e.result
    /\ UNCHANGED <<interfaceVars, callbackVars>>

Evaluate ==
    /\ fn = "none"
    /\ \E a \in EvaluateArguments, metrics \in MetricLists :
         LET e == evaluate(a, "evaluator", metrics)
         IN  /\ fn' = "evaluate"
             /\ args' = a
             /\ calls' = e.calls
             /\ handle' = e.handle
             /\ result' = e.result
    /\ UNCHANGED <<interfaceVars, callbackVars>>

\* Where in `calls` the function initialised its trainer / evaluator,
\* registered the auto-logging callbacks, and started the run
Initialisations ==
    {i \in 1..Len(calls) : /\ calls[i].target = "PyTorchMLRunInterface"
                           /\ calls[i].method \in {"init_trainer", "init_evaluator"}}
Registrations ==
    {i \in 1..Len(calls) : calls[i].method = "add_auto_logging_callbacks"}
Runs ==
    {i \in 1..Len(calls) : calls[i].target = handle /\ calls[i].method = fn}

\* C4: in train and in evaluate, add_auto_logging_callbacks is called, on the
\* trainer / evaluator and with the given context and custom_objects, iff
\* auto_log is true; then it is called exactly once, after the trainer /
\* evaluator was initialised and before its run starts; the run is started
\* exactly once whatever auto_log is.
C4_AutoLoggingIffAutoLog ==
    fn # "none" =>
        /\ args.auto_log <=> Registrations # {}
        /\ Cardinality(Registrations) <= 1
        /\ \A i \in Registrations :
              /\ calls[i].target = handle
              /\ calls[i].kwargs =
                    [context |-> args.context, custom_objects |-> args.custom_objects]
              /\ \E j \in Initialisations : j < i /\ calls[j].returns = handle
              /\ \A k \in Runs : i < k
        /\ Cardinality(Initialisations) = 1
        /\ Cardinality(Runs) = 1

\* C4's case: train was called with auto_log true, a context and custom objects.
C4_Witness ==
    /\ fn = "train"
    /\ args.auto_log
    /\ args.context = "context"
    /\ args.custom_objects = "custom_objects"
    /\ Len(calls) = 3

\* C5: train returns the trainer that PyTorchMLRunInterface.init_trainer
\* produced.
C5_TrainReturnsTrainer ==
    fn = "train" => result = calls[1].returns

C7_ArgumentsForwarded ==
    /\ fn = "train" =>
          /\ calls[1].method = "init_trainer"
          /\ calls[1].kwargs =
                [model                 |-> args.model,
                 training_set          |-> args.training_set,
                 loss_function         |-> args.loss_function,
                 optimizer             |-> args.optimizer,
                 validation_set        |-> args.validation_set,
                 metric_functions      |-> args.metric_functions,
                 scheduler             |-> args.scheduler,
                 epochs                |-> args.epochs,
                 training_iterations   |-> args.training_iterations,
                 validation_iterations |-> args.validation_iterations,
                 callbacks             |-> args.callbacks_list,
                 use_cuda              |-> args.use_cuda,
                 use_horovod           |-> args.use_horovod]
    /\ fn = "evaluate" =>
          /\ calls[1].method = "init_evaluator"
          /\ calls[1].kwargs =
                [model            |-> args.model,
                 dataset          |-> args.dataset,
                 loss_function    |-> args.loss_function,
                 metric_functions |-> args.metric_functions,
                 iterations       |-> args.iterations,
                 callbacks        |-> args.callbacks_list,
                 use_cuda         |-> args.use_cuda,
                 use_horovod      |-> args.use_horovod]
    /\ fn # "none" =>
          \A i \in 1..Len(calls) :
              /\ i \in Initialisations \cup Registrations \cup Runs
              /\ i \in Runs => calls[i].kwargs = <<>>

\* C7's case: train was called with use_horovod true, use_cuda false, every
\* optional argument given and more than one epoch.
C7_Witness ==
    /\ fn = "train"
    /\ args.use_horovod
    /\ ~args.use_cuda
    /\ args.epochs > 1
    /\ args.training_iterations # <<>>
    /\ None \notin {args.validation_set, args.metric_functions, args.scheduler,
                     args.callbacks_list}
    /\ calls[1].kwargs.use_horovod

(***************************************************************************)
(* The specifications.                                                     *)
(***************************************************************************)
NextInterface == AddInterface

NextRun == Train \/ Evaluate

\* add_interface called on any model object, with any interface
SpecInterface == InitInterface /\ [][NextInterface]_vars

\* The hooks of a callback invoked in any order, with any arguments
SpecCallback == InitCallback /\ [][NextCallback]_vars

\* train or evaluate called with any arguments
SpecRun == InitRun /\ [][NextRun]_vars

====
